---- MODULE Spec2Model ----
(***************************************************************************)
(* gestione_spese.py: a Streamlit ledger whose only persistent state is    *)
(* one Google Sheet.  Every user interaction reruns the script: it loads   *)
(* the sheet (carica_dati), and a form submission or the grid's save       *)
(* button then overwrites the whole sheet (salva_dati_su_cloud: clear,     *)
(* then update from cell A1).                                              *)
(*                                                                         *)
(* The sheet is a sequence of rows; a row keeps the two columns the code   *)
(* computes with, ID and Data.  Tipo, Categoria, Importo and Note travel   *)
(* with the row untouched and are not represented.                         *)
(***************************************************************************)
EXTENDS Integers, Sequences, FiniteSets, TLC

\* ------------------------------------------------------------------ bounds
MaxRows == 2        \* data rows of the sheet before the first interaction
MaxOps == 2         \* user interactions (script reruns the user triggers)
MaxEdits == 1       \* rows of the grid deleted or changed before one save

Sessions == {"s1", "s2"}

\* ------------------------------------------------------- values and cells
\* Non-blank ids: what str(uuid.uuid4())[:8] can be.
Ids == {"a1", "c3"}
\* ID cells a sheet row can hold before the program first writes it.
SheetIds == {"", "a1", "b2"}
\* Data cells a sheet row can hold: a date, a date with a time of day, junk.
DateCells == {"2023-05-01", "2024-01-05 10:30", "n/a"}
NaT == "NaT"
\* the row of column names
cols == [ID |-> "ID", Data |-> "Data"]
\* the id of a row the grid editor inserted (pd.isna is true of it)
NaN == "NaN"

anno_corrente == 2024

\* pd.to_datetime(cell, errors='coerce')
to_datetime(cell) ==
  CASE cell = "2023-05-01" -> "2023-05-01T00:00"
    [] cell = "2024-01-05" -> "2024-01-05T00:00"
    [] cell = "2024-01-05 10:30" -> "2024-01-05T10:30"
    [] OTHER -> NaT

\* strftime with the day first ('%d-%m-%Y'): cells pd.to_datetime reads
\* differently or not at all
strftime_giorno_primo(ts) ==
  CASE ts = "2023-05-01T00:00" -> "01-05-2023"
    [] ts \in {"2024-01-05T00:00", "2024-01-05T10:30"} -> "05-01-2024"
    [] OTHER -> "nan"

\* Series.dt.strftime('%Y-%m-%d'); NaT gives NaN
strftime(ts) ==
  CASE ts = "2023-05-01T00:00" -> "2023-05-01"
    [] ts \in {"2024-01-05T00:00", "2024-01-05T10:30"} -> "2024-01-05"
    [] OTHER -> "nan"

\* Series.dt.year
year(ts) == IF ts = "2023-05-01T00:00" THEN 2023 ELSE 2024

\* mesi_dict[Series.dt.month]
month(ts) == IF ts = "2023-05-01T00:00" THEN "Maggio" ELSE "Gennaio"

\* what st.date_input / the grid's DateColumn can hand back: a day at midnight
DateInputs == {"2023-05-01T00:00", "2024-01-05T00:00"}

Mesi == {"Tutti", "Gennaio"}

\* ------------------------------------------------------------ data frames
\* A frame: its rows in order, and whether column Data has a datetime dtype.
Map(s, F(_)) == [i \in 1..Len(s) |-> F(s[i])]
Range(s) == {s[i] : i \in 1..Len(s)}
IdsOf(rows) == {rows[i].ID : i \in 1..Len(rows)}

\* pd.DataFrame(columns=cols): no rows, every column of dtype object
EmptyFrame == [rows |-> <<>>, dt |-> FALSE]

Frame(rows) == [rows |-> rows, dt |-> TRUE]

\* df["Data"] = pd.to_datetime(...); df = df.dropna(subset=["Data"])
ParseDates(rows) ==
  Frame(SelectSeq(Map(rows, LAMBDA r : [ID |-> r.ID, Data |-> to_datetime(r.Data)]),
                  LAMBDA r : r.Data # NaT))

\* pd.concat([a, b], ignore_index=True); empty frames do not decide the dtype
concat(a, b) ==
  [rows |-> a.rows \o b.rows,
   dt |-> IF a.rows = <<>> /\ b.rows = <<>> THEN a.dt /\ b.dt
          ELSE (a.rows = <<>> \/ a.dt) /\ (b.rows = <<>> \/ b.dt)]

\* sheet.get_all_records(): the rows under the first one
get_all_records(sheet) == Tail(sheet)

\* carica_dati without its try/except: a fetch failure ends the run
carica_dati_senza_except(sheet, fault) ==
  IF fault \in {"connect", "fetch"}
  THEN [df |-> EmptyFrame, sheet |-> sheet, diag |-> "error", stopped |-> TRUE]
  ELSE IF sheet = <<>>
  THEN [df |-> EmptyFrame, sheet |-> <<cols>>, diag |-> "none",
        stopped |-> FALSE]
  ELSE [df |-> ParseDates(get_all_records(sheet)), sheet |-> sheet,
        diag |-> "none", stopped |-> FALSE]

\* carica_dati(): the frame, the sheet afterwards, the message shown, and
\* whether st.stop() ended the script run.  fault: "none", "connect" (the
\* except branch of connetti_google_sheet), "fetch" (an exception of
\* get_all_values, append_row or get_all_records).
carica_dati(sheet, fault) ==
  IF fault = "connect"
  THEN [df |-> EmptyFrame, sheet |-> sheet, diag |-> "error", stopped |-> TRUE]
  ELSE IF fault = "fetch"
  THEN [df |-> ParseDates(<<>>), sheet |-> sheet, diag |-> "warning",
        stopped |-> FALSE]
  ELSE IF sheet = <<>>
  THEN [df |-> EmptyFrame, sheet |-> <<cols>>, diag |-> "none",
        stopped |-> FALSE]
  ELSE [df |-> ParseDates(get_all_records(sheet)), sheet |-> sheet,
        diag |-> "none", stopped |-> FALSE]

\* genera_id(): eight hex digits of a random UUID; nothing is looked up
genera_id == Ids

\* the form's handler: nuovo_record, then "Concatenazione sicura"
nuovo_record(id, data) == Frame(<<[ID |-> id, Data |-> data]>>)

aggiungi(df, nuovo) == IF df.rows = <<>> THEN nuovo ELSE concat(df, nuovo)

\* anni_totali: the years of the frame and the current one
anni_totali(df) == {year(df.rows[i].Data) : i \in 1..Len(df.rows)} \cup {anno_corrente}

\* df_filtrato
filtra(df, anno, mese) ==
  IF df.rows = <<>> THEN [rows |-> <<>>, dt |-> df.dt]
  ELSE [rows |-> SelectSeq(df.rows, LAMBDA r :
                    /\ year(r.Data) = anno
                    /\ (mese # "Tutti" => month(r.Data) = mese)),
        dt |-> df.dt]

\* the date a user moves a row to: the model's day of the other year
AltraData(ts) == IF year(ts) = 2023 THEN "2024-01-05T00:00" ELSE "2023-05-01T00:00"

\* st.data_editor(df_filtrato, num_rows="dynamic"): a row is kept, deleted or
\* given another date, at most k of them being touched; at most one row is
\* inserted (no ID, date set or not)
RECURSIVE EditRows(_, _)
EditRows(rows, k) ==
  IF rows = <<>> THEN {<<>>}
  ELSE LET r == Head(rows)
           touched == IF k = 0 THEN {}
                      ELSE {h \o t : h \in {<<>>, <<[r EXCEPT !.Data = AltraData(r.Data)]>>},
                                     t \in EditRows(Tail(rows), k - 1)}
       IN {<<r>> \o t : t \in EditRows(Tail(rows), k)} \cup touched

AddedRows == {<<>>} \cup {<<[ID |-> NaN, Data |-> d]>> : d \in {"2024-01-05T00:00", NaT}}

data_editor(view) ==
  {[rows |-> e \o a, dt |-> view.dt] : e \in EditRows(view.rows, MaxEdits), a \in AddedRows}

\* ------------------------------------------------------------ reconcile
\* pd.isna(row["ID"]) or row["ID"] == ""
IsBlank(id) == id = NaN \/ id = ""

ids_visualizzati(view) == IdsOf(view.rows)

\* the selection without its "~": the displayed rows are the ones kept
df_db_aggiornato_senza_not(full, view) ==
  [rows |-> SelectSeq(full.rows, LAMBDA r : r.ID \in ids_visualizzati(view)),
   dt |-> full.dt]

\* no selection at all: the reloaded frame is kept whole
df_db_aggiornato_tutto(full, view) == full

\* df_db_completo[~df_db_completo["ID"].isin(ids_visualizzati)]
df_db_aggiornato(full, view) ==
  [rows |-> SelectSeq(full.rows, LAMBDA r : r.ID \notin ids_visualizzati(view)),
   dt |-> full.dt]

BlankPos(edited) == {i \in 1..Len(edited.rows) : IsBlank(edited.rows[i].ID)}

\* the loop testing only row["ID"] == "": an inserted row keeps its NaN
assegna_id_solo_vuoti(edited, gen) ==
  [rows |-> [i \in 1..Len(edited.rows) |->
               IF edited.rows[i].ID = ""
               THEN [edited.rows[i] EXCEPT !.ID = gen[i]]
               ELSE edited.rows[i]],
   dt |-> edited.dt]

\* the loop over df_modificato.iterrows(); gen[i] is what genera_id() returns
\* for row i
assegna_id(edited, gen) ==
  [rows |-> [i \in 1..Len(edited.rows) |->
               IF i \in BlankPos(edited)
               THEN [edited.rows[i] EXCEPT !.ID = gen[i]]
               ELSE edited.rows[i]],
   dt |-> edited.dt]

df_finale(full, view, editedWithIds) ==
  concat(df_db_aggiornato(full, view), editedWithIds)

\* ----------------------------------------------------------------- save
\* df_export["Data"].dt works only on a datetime column
PuoEsportare(df) == df.dt

\* dati_completi: the header, then the rows with their dates as text
dati_completi(df) ==
  <<cols>> \o Map(df.rows, LAMBDA r : [ID |-> r.ID, Data |-> strftime(r.Data)])

\* a NaN that is sent as an empty cell: sheet.update never raises for it
HasNaN_mai(values) == FALSE

\* a NaN among the values cannot be sent: sheet.update raises
HasNaN(values) == \E i \in 1..Len(values) : values[i].Data = "nan"

\* a save that does not clear first
clear_assente(sheet) == sheet

\* sheet.clear()
clear(sheet) == <<>>

\* the block written without its first row, the column names
update_senza_intestazione(sheet, values) ==
  Tail(values) \o SubSeq(sheet, Len(values), Len(sheet))

\* sheet.update(range_name='A1', values=...): writes the block at A1 and
\* leaves every row under it as it is
update(sheet, values) ==
  values \o SubSeq(sheet, Len(values) + 1, Len(sheet))

\* ---------------------------------------------------------------- state
VARIABLES
  store,     \* the sheet's rows
  faults,    \* whether the network and the API may fail in this behaviour
  pc,        \* per session: where its script run stands
  kind,      \* per session: the interaction being served
  loaded,    \* per session: the outcome of its latest carica_dati()
  view,      \* per session: df_filtrato
  edited,    \* per session: df_modificato
  full,      \* per session: df_db_completo
  out,       \* per session: the frame handed to salva_dati_su_cloud
  saveRes,   \* per session: how its latest save ended
  halted,    \* per session: st.stop() ended its script run
  outside,   \* per session: ids of the loaded records the grid does not show
  overlap,   \* per session: another session rewrote since its load
  mixed,     \* per session: another session rewrote since its clear
  lastMut,   \* who last changed the sheet, and how
  saved,     \* some save has completed
  quota,     \* per session: user interactions it may still make
  rt         \* the load / save / load experiment

vars == <<store, faults, pc, kind, loaded, view, edited, full, out, saveRes,
          halted, outside, overlap, mixed, lastMut, saved, quota, rt>>

sessVars == <<pc, kind, loaded, view, edited, full, out, saveRes, halted,
              outside, overlap, mixed>>

\* ----------------------------------------------------------------- Init
SheetRows == {[ID |-> i, Data |-> c] : i \in SheetIds, c \in DateCells}

RECURSIVE RowSeqs(_)
RowSeqs(n) ==
  IF n = 0 THEN {<<>>}
  ELSE LET p == RowSeqs(n - 1)
       IN p \cup {Append(q, r) : q \in {x \in p : Len(x) = n - 1},
                                r \in SheetRows}

DistinctIds(rows) == \A i, j \in 1..Len(rows) : rows[i].ID = rows[j].ID => i = j

\* a sheet never opened (no cell at all), or the header and rows with
\* pairwise distinct ids
InitStores ==
  {<<>>} \cup {<<cols>> \o q : q \in {x \in RowSeqs(MaxRows) : DistinctIds(x)}}

NoLoad == [df |-> EmptyFrame, diag |-> "none", stopped |-> FALSE,
           fault |-> "none", dropped |-> 0]

RtInit == [pc |-> "off", S |-> EmptyFrame, T |-> EmptyFrame, ret |-> FALSE]

InitSessions ==
  /\ pc = [s \in Sessions |-> "idle"]
  /\ kind = [s \in Sessions |-> "none"]
  /\ loaded = [s \in Sessions |-> NoLoad]
  /\ view = [s \in Sessions |-> EmptyFrame]
  /\ edited = [s \in Sessions |-> EmptyFrame]
  /\ full = [s \in Sessions |-> EmptyFrame]
  /\ out = [s \in Sessions |-> EmptyFrame]
  /\ saveRes = [s \in Sessions |-> "none"]
  /\ halted = [s \in Sessions |-> FALSE]
  /\ outside = [s \in Sessions |-> {}]
  /\ overlap = [s \in Sessions |-> FALSE]
  /\ mixed = [s \in Sessions |-> FALSE]
  /\ lastMut = [by |-> "none", op |-> "none"]
  /\ saved = FALSE
  /\ rt = RtInit

Init ==
  /\ store \in InitStores
  /\ faults = TRUE
  /\ quota = [s \in Sessions |-> IF s = "s1" THEN MaxOps ELSE 0]
  /\ InitSessions

\* two sessions with one interaction each, on a sheet whose rows the load
\* keeps and whose ids are set, and no injected fault
InitConc ==
  /\ store \in {x \in InitStores :
                  \A i \in 1..Len(x) :
                    i > 1 => to_datetime(x[i].Data) # NaT /\ ~IsBlank(x[i].ID)}
  /\ faults = FALSE
  /\ quota = [s \in Sessions |-> 1]
  /\ InitSessions

\* -------------------------------------------------------------- actions
\* the faults a call may meet in this behaviour
May(F) == IF faults THEN F ELSE {"none"}

LoadFaults == {"none", "connect", "fetch"}

SaveFaults == {"none", "connect", "api"}

UpdateFaults == {"none", "api"}

\* what a session keeps of a carica_dati() call
LoadOutcome(l, f, sheet) ==
  [df |-> l.df, diag |-> l.diag, stopped |-> l.stopped, fault |-> f,
   dropped |-> IF f = "none" /\ sheet # <<>>
               THEN Len(sheet) - 1 - Len(l.df.rows) ELSE 0]

Touch(s, l) == IF l.sheet = store THEN lastMut ELSE [by |-> s, op |-> "header"]

\* salva_dati_su_cloud(df) run from its first line to its return with no
\* fault injected: the sheet afterwards and the value returned
salva_dati_su_cloud(sheet, df) ==
  IF ~PuoEsportare(df) THEN [sheet |-> sheet, ret |-> FALSE]
  ELSE IF HasNaN(dati_completi(df)) THEN [sheet |-> clear(sheet), ret |-> FALSE]
  ELSE [sheet |-> update(clear(sheet), dati_completi(df)), ret |-> TRUE]

\* The locals of a script run (df_filtrato, df_modificato, df_db_completo,
\* df_finale) are gone when the run ends.
Forget(f, s) == [f EXCEPT ![s] = EmptyFrame]

\* what follows a save that returned False: the script goes on to draw the
\* page and ends
DopoFallimento == "idle"

EndRun(s) ==
  /\ view' = Forget(view, s)
  /\ edited' = Forget(edited, s)
  /\ full' = Forget(full, s)
  /\ out' = Forget(out, s)
  /\ outside' = [outside EXCEPT ![s] = {}]
  /\ kind' = [kind EXCEPT ![s] = "none"]

\* a save that did not complete: the script draws the page and ends
EndSave(s) ==
  /\ out' = Forget(out, s)
  /\ outside' = [outside EXCEPT ![s] = {}]
  /\ kind' = [kind EXCEPT ![s] = "none"]
  /\ loaded' = [loaded EXCEPT ![s] = NoLoad]

\* the first lines of every script run: df = carica_dati()
FirstLoad(s, l, f) ==
  /\ store' = l.sheet
  /\ lastMut' = Touch(s, l)
  /\ loaded' = [loaded EXCEPT ![s] = LoadOutcome(l, f, store)]
  /\ halted' = [halted EXCEPT ![s] = l.stopped]

\* a run that only loads and draws the page: df is gone when it ends
LoadAndDraw(s, l, f) ==
  /\ store' = l.sheet
  /\ lastMut' = Touch(s, l)
  /\ loaded' = [loaded EXCEPT ![s] =
                  [LoadOutcome(l, f, store) EXCEPT !.df = EmptyFrame, !.dropped = 0]]
  /\ halted' = [halted EXCEPT ![s] = l.stopped]

NewInteraction(s) ==
  /\ pc[s] = "idle" /\ quota[s] > 0
  /\ quota' = [quota EXCEPT ![s] = @ - 1]
  /\ saveRes' = [saveRes EXCEPT ![s] = "none"]
  /\ overlap' = [overlap EXCEPT ![s] = FALSE]
  /\ mixed' = [mixed EXCEPT ![s] = FALSE]

\* Any interaction that neither submits the form nor presses the save
\* button: the script reruns, df = carica_dati(), the page is drawn.
Rerun(s) ==
  /\ NewInteraction(s)
  /\ \E f \in May(LoadFaults) : LoadAndDraw(s, carica_dati(store, f), f)
  /\ EndRun(s)
  /\ UNCHANGED <<faults, pc, saved, rt>>

\* "Aggiungi e Salva": the rerun's load, then nuovo_record is appended and the
\* frame goes to salva_dati_su_cloud.
FormSubmit(s) ==
  /\ NewInteraction(s)
  /\ \E f \in May(LoadFaults), id \in genera_id, d \in DateInputs :
       LET l == carica_dati(store, f) IN
         /\ FirstLoad(s, l, f)
         /\ pc' = [pc EXCEPT ![s] = IF l.stopped THEN "idle" ELSE "save"]
         /\ out' = [out EXCEPT ![s] =
                      IF l.stopped THEN EmptyFrame
                      ELSE aggiungi(l.df, nuovo_record(id, d))]
         /\ kind' = [kind EXCEPT ![s] = IF l.stopped THEN "none" ELSE "form"]
  /\ view' = Forget(view, s)
  /\ edited' = Forget(edited, s)
  /\ full' = Forget(full, s)
  /\ outside' = [outside EXCEPT ![s] = {}]
  /\ UNCHANGED <<faults, saved, rt>>

\* The save button under the grid: the rerun's load, the filter, the editor's
\* rows; the button exists only when df_filtrato is not empty.
GridSave(s) ==
  /\ NewInteraction(s)
  /\ LET l == carica_dati(store, "none") IN
       /\ FirstLoad(s, l, "none")
       /\ \E anno \in anni_totali(l.df), mese \in Mesi :
            LET v == filtra(l.df, anno, mese) IN
              /\ v.rows # <<>>
              /\ view' = [view EXCEPT ![s] = v]
              /\ \E e \in data_editor(v) : edited' = [edited EXCEPT ![s] = e]
              /\ outside' = [outside EXCEPT ![s] =
                               IdsOf(l.df.rows) \ ids_visualizzati(v)]
  /\ pc' = [pc EXCEPT ![s] = "reload"]
  /\ kind' = [kind EXCEPT ![s] = "grid"]
  /\ full' = Forget(full, s)
  /\ out' = Forget(out, s)
  /\ UNCHANGED <<faults, saved, rt>>

\* The reconcile block: df_db_completo = carica_dati(), the displayed ids are
\* taken out, blank ids are filled, the two frames are concatenated.
Reload(s) ==
  /\ pc[s] = "reload"
  /\ \E f \in May(LoadFaults), gen \in [BlankPos(edited[s]) -> genera_id] :
       LET l == carica_dati(store, f)
           e == assegna_id(edited[s], gen)
       IN
         /\ FirstLoad(s, l, f)
         /\ pc' = [pc EXCEPT ![s] = IF l.stopped THEN "idle" ELSE "save"]
         /\ IF l.stopped THEN EndRun(s)
            ELSE /\ full' = [full EXCEPT ![s] = l.df]
                 /\ edited' = [edited EXCEPT ![s] = e]
                 /\ out' = [out EXCEPT ![s] = df_finale(l.df, view[s], e)]
                 /\ UNCHANGED <<view, outside, kind>>
  /\ overlap' = [overlap EXCEPT ![s] = FALSE]
  /\ UNCHANGED <<faults, saveRes, mixed, saved, quota, rt>>

\* salva_dati_su_cloud up to and including sheet.clear()
SaveClear(s) ==
  /\ pc[s] = "save"
  /\ \E f \in May(SaveFaults) :
       IF f = "connect"
       THEN /\ halted' = [halted EXCEPT ![s] = TRUE]
            /\ saveRes' = [saveRes EXCEPT ![s] = "stopped"]
            /\ pc' = [pc EXCEPT ![s] = "idle"]
            /\ EndSave(s)
            /\ UNCHANGED <<store, lastMut, mixed>>
       ELSE IF ~PuoEsportare(out[s]) \/ f = "api"
       THEN /\ saveRes' = [saveRes EXCEPT ![s] = "failed_before_clear"]
            /\ pc' = [pc EXCEPT ![s] = DopoFallimento]
            /\ EndSave(s)
            /\ UNCHANGED <<store, lastMut, mixed, halted>>
       ELSE /\ store' = clear(store)
            /\ lastMut' = [by |-> s, op |-> "clear"]
            /\ pc' = [pc EXCEPT ![s] = "update"]
            /\ mixed' = [mixed EXCEPT ![s] = FALSE]
            /\ UNCHANGED <<saveRes, halted, out, outside, kind, loaded>>
  /\ view' = Forget(view, s)
  /\ edited' = Forget(edited, s)
  /\ full' = Forget(full, s)
  /\ UNCHANGED <<faults, overlap, saved, quota, rt>>

\* sheet.update(...) and the return; True is followed by st.rerun()
SaveUpdate(s) ==
  /\ pc[s] = "update"
  /\ \E f \in May(UpdateFaults) :
       IF HasNaN(dati_completi(out[s])) \/ f = "api"
       THEN /\ saveRes' = [saveRes EXCEPT ![s] = "failed_after_clear"]
            /\ pc' = [pc EXCEPT ![s] = DopoFallimento]
            /\ EndSave(s)
            /\ UNCHANGED <<store, lastMut, saved, overlap, mixed>>
       ELSE /\ store' = update(store, dati_completi(out[s]))
            /\ lastMut' = [by |-> s, op |-> "update"]
            /\ saveRes' = [saveRes EXCEPT ![s] = "ok"]
            /\ pc' = [pc EXCEPT ![s] = "saved"]
            /\ saved' = TRUE
            /\ overlap' = [u \in Sessions |->
                 IF u # s /\ pc[u] \in {"save", "update"} THEN TRUE ELSE overlap[u]]
            /\ mixed' = [u \in Sessions |->
                 IF u # s /\ pc[u] = "update" THEN TRUE ELSE mixed[u]]
            /\ UNCHANGED <<out, outside, kind, loaded>>
  /\ UNCHANGED <<faults, view, edited, full, halted, quota, rt>>

\* st.rerun() after a successful save: the script runs again from the top
AutoRerun(s) ==
  /\ pc[s] = "saved"
  /\ \E f \in May(LoadFaults) : LoadAndDraw(s, carica_dati(store, f), f)
  /\ pc' = [pc EXCEPT ![s] = "idle"]
  /\ EndRun(s)
  /\ overlap' = [overlap EXCEPT ![s] = FALSE]
  /\ mixed' = [mixed EXCEPT ![s] = FALSE]
  /\ saveRes' = [saveRes EXCEPT ![s] = "none"]
  /\ UNCHANGED <<faults, saved, quota, rt>>

Step(s) ==
  \/ Rerun(s)
  \/ FormSubmit(s)
  \/ GridSave(s)
  \/ Reload(s)
  \/ SaveClear(s)
  \/ SaveUpdate(s)
  \/ AutoRerun(s)

\* one browser session
Next == Step("s1")

Spec == Init /\ [][Next]_vars

\* two browser sessions on the same sheet
NextConc == \E s \in Sessions : Step(s)

SpecConc == InitConc /\ [][NextConc]_vars

\* ------------------------------------------- load, save, load in a row
RTLoad ==
  /\ rt.pc = "off"
  /\ LET l == carica_dati(store, "none") IN
       /\ store' = l.sheet
       /\ rt' = [rt EXCEPT !.pc = "loaded", !.S = l.df]
  /\ UNCHANGED <<faults, sessVars, lastMut, saved, quota>>

RTSave ==
  /\ rt.pc = "loaded"
  /\ LET r == salva_dati_su_cloud(store, rt.S) IN
       /\ store' = r.sheet
       /\ rt' = [rt EXCEPT !.pc = "saved", !.ret = r.ret]
  /\ UNCHANGED <<faults, sessVars, lastMut, saved, quota>>

RTLoadAgain ==
  /\ rt.pc = "saved"
  /\ LET l == carica_dati(store, "none") IN
       /\ store' = l.sheet
       /\ rt' = [rt EXCEPT !.pc = "done", !.T = l.df]
  /\ UNCHANGED <<faults, sessVars, lastMut, saved, quota>>

NextRT == RTLoad \/ RTSave \/ RTLoadAgain

SpecRT == Init /\ [][NextRT]_vars

\* ================================================================ claims
DataRows(sheet) == IF sheet = <<>> THEN <<>> ELSE Tail(sheet)

Reconciled(s) == pc[s] = "save" /\ kind[s] = "grid"

Blank == {"", NaN}

\* the timestamp of the same day at midnight
Giorno(ts) == IF ts = "2024-01-05T10:30" THEN "2024-01-05T00:00" ELSE ts

YMD == {"2023-05-01", "2024-01-05"}

JustRewrote(s) == lastMut = [by |-> s, op |-> "update"] /\ pc[s] = "saved"

\* C1 - Reconciliation scoping: once the grid save has reconciled, every
\* record of the reloaded full set whose id is not an id of the displayed
\* view is, with the same fields, in the frame about to be written.
C1_KeptUnchanged ==
  \A s \in Sessions :
    Reconciled(s) =>
      \A i \in 1..Len(full[s].rows) :
        full[s].rows[i].ID \notin IdsOf(view[s].rows)
          => full[s].rows[i] \in Range(out[s].rows)

\* a grid save whose full set holds a record outside the view, while the
\* edited rows differ from the displayed ones
C1_Witness ==
  \E s \in Sessions :
    /\ Reconciled(s)
    /\ \E i \in 1..Len(full[s].rows) : full[s].rows[i].ID \notin IdsOf(view[s].rows)
    /\ edited[s].rows # view[s].rows

\* C2 - Deletion: an id of the displayed view that no row of the edited view
\* (df_modificato as it is concatenated, blank ids filled) carries is the id
\* of no record of the frame about to be written, whatever the reload found.
C2_DeletedStaysDeleted ==
  \A s \in Sessions :
    Reconciled(s) =>
      \A i \in 1..Len(view[s].rows) :
        view[s].rows[i].ID \notin IdsOf(edited[s].rows)
          => view[s].rows[i].ID \notin IdsOf(out[s].rows)

\* the spec's scenario: the full set is one record, the view shows it, the
\* user deletes it, the reconciled set is empty
C2_Witness ==
  \E s \in Sessions :
    /\ Reconciled(s)
    /\ Len(full[s].rows) = 1 /\ view[s].rows = full[s].rows
    /\ edited[s].rows = <<>>
    /\ out[s].rows = <<>>

\* C3 as claimed - Id assignment: every record of the reconciled set, kept
\* or edited, has a non-blank id.
C3_AllIdsSet ==
  \A s \in Sessions :
    Reconciled(s) =>
      \A i \in 1..Len(out[s].rows) : out[s].rows[i].ID \notin Blank

\* C3 as amended - every record that the reconciled set takes from the
\* edited view has a non-blank id; a record with a blank id in the reconciled
\* set is a kept record, as it was loaded.
C3_EditedIdsSet ==
  \A s \in Sessions :
    Reconciled(s) =>
      /\ \A i \in 1..Len(edited[s].rows) : edited[s].rows[i].ID \notin Blank
      /\ \A i \in 1..Len(out[s].rows) :
           out[s].rows[i].ID \in Blank
             => /\ i <= Len(out[s].rows) - Len(edited[s].rows)
                /\ out[s].rows[i] \in Range(full[s].rows)

\* a grid save with an inserted row, which now carries an id the view did
\* not show
C3_Witness ==
  \E s \in Sessions :
    /\ Reconciled(s)
    /\ \E i \in 1..Len(edited[s].rows) :
         /\ edited[s].rows[i].ID \notin IdsOf(view[s].rows)
         /\ edited[s].rows[i].ID \notin Blank
    /\ \E i \in 1..Len(out[s].rows) : out[s].rows[i].ID \in Blank

\* C4 - Id uniqueness: the sheet starts with pairwise distinct ids, and after
\* any sequence of form additions and grid saves its ids are pairwise
\* distinct.
C4_IdsDistinct == DistinctIds(DataRows(store))

\* C5 as claimed - load never aborts: after a failure to connect or to fetch,
\* load has returned the empty set with a warning and the script goes on.
C5_LoadNeverAborts ==
  \A s \in Sessions :
    loaded[s].fault \in {"connect", "fetch"}
      => /\ ~halted[s]
         /\ loaded[s].diag = "warning"
         /\ loaded[s].df.rows = <<>>

\* C5 as amended - a failure while fetching is caught: load returns the empty
\* set with a warning and the script goes on; a failure to connect shows an
\* error and st.stop() ends the script run, so nothing is saved in that run.
C5_FetchCaughtConnectStops ==
  \A s \in Sessions :
    /\ loaded[s].fault = "fetch"
         => /\ ~halted[s]
            /\ ~loaded[s].stopped
            /\ loaded[s].diag = "warning"
            /\ loaded[s].df.rows = <<>>
    /\ loaded[s].fault = "connect"
         => /\ halted[s]
            /\ loaded[s].diag = "error"
            /\ pc[s] = "idle"
            /\ out[s].rows = <<>>

\* a form submission whose load hit a fetch failure and which went on to the
\* save with the new record alone
C5_Witness ==
  \E s \in Sessions :
    /\ loaded[s].fault = "fetch"
    /\ kind[s] = "form" /\ pc[s] = "save"
    /\ Len(out[s].rows) = 1

\* C6 - save is not transactional: when the rewrite fails after the clear,
\* the sheet is empty, the save has returned False, and the session is back
\* at rest: nothing writes again until the user acts.
C6_NotTransactional ==
  \A s \in Sessions :
    saveRes[s] = "failed_after_clear"
      => /\ store = <<>>
         /\ pc[s] = "idle"
         /\ ~halted[s]

\* a save that failed after its clear
C6_Witness ==
  \E s \in Sessions : saveRes[s] = "failed_after_clear" /\ pc[s] = "idle"

\* C7 as claimed - round trip: S = load(); save(S); load() gives S again, and
\* the sheet is the header and the rows of S with YYYY-MM-DD dates.
C7_RoundTrip ==
  rt.pc = "done" =>
    /\ Range(rt.T.rows) = Range(rt.S.rows)
    /\ Len(store) = Len(rt.S.rows) + 1
    /\ store[1] = cols
    /\ \A i \in 1..Len(rt.S.rows) :
         /\ store[i + 1].ID = rt.S.rows[i].ID
         /\ store[i + 1].Data \in YMD

\* C7 as amended - the second load gives S with every date cut to its day
\* (S itself when no date of S has a time of day), and the sheet is the
\* header and the rows of S with YYYY-MM-DD dates.
C7_RoundTripToTheDay ==
  rt.pc = "done" =>
    /\ Range(rt.T.rows) = {[r EXCEPT !.Data = Giorno(r.Data)] : r \in Range(rt.S.rows)}
    /\ (\A r \in Range(rt.S.rows) : Giorno(r.Data) = r.Data) => rt.T.rows = rt.S.rows
    /\ Len(store) = Len(rt.S.rows) + 1
    /\ store[1] = cols
    /\ \A i \in 1..Len(rt.S.rows) :
         /\ store[i + 1].ID = rt.S.rows[i].ID
         /\ store[i + 1].Data \in YMD
         /\ to_datetime(store[i + 1].Data) = Giorno(rt.S.rows[i].Data)

\* a completed round trip of a set with a date that has a time of day
C7_Witness ==
  /\ rt.pc = "done" /\ rt.ret
  /\ \E r \in Range(rt.S.rows) : Giorno(r.Data) # r.Data

\* C8 as claimed - last writer wins: when a session completes its rewrite
\* after another session rewrote since its load, the sheet holds only its
\* set, and neither session has an error.
C8_OnlyLastWriter ==
  \A s \in Sessions :
    (JustRewrote(s) /\ overlap[s])
      => /\ store = dati_completi(out[s])
         /\ \A u \in Sessions : saveRes[u] \in {"ok", "none"} /\ ~halted[u]

\* C8, what every interleaving gives - the sheet then holds the later writer's
\* set from its first row on, and only that set unless the other rewrite fell
\* between the later writer's clear and rewrite; neither session has an error.
C8_LastWriterOnTop ==
  \A s \in Sessions :
    (JustRewrote(s) /\ overlap[s])
      => /\ Len(store) >= Len(dati_completi(out[s]))
         /\ SubSeq(store, 1, Len(dati_completi(out[s]))) = dati_completi(out[s])
         /\ ~mixed[s] => store = dati_completi(out[s])
         /\ \A u \in Sessions : saveRes[u] \in {"ok", "none"} /\ ~halted[u]

\* two overlapping saves, the earlier one lost: the later writer loaded
\* before the earlier rewrite and cleared after it
C8_Witness ==
  \E s \in Sessions :
    /\ JustRewrote(s) /\ overlap[s] /\ ~mixed[s]
    /\ store = dati_completi(out[s])
    /\ \E u \in Sessions \ {s} : out[u].rows # out[s].rows /\ pc[u] = "saved"

\* C9 - scoping at the sheet: a grid save that succeeds leaves in the sheet
\* every loaded record whose id the view did not show.
C9_OutsideSurvive ==
  \A s \in Sessions :
    (JustRewrote(s) /\ kind[s] = "grid")
      => outside[s] \subseteq IdsOf(DataRows(store))

\* C10 - once a save has completed, no row of the sheet has a date that
\* load would reject: the rows dropped at load are gone for good.
C10_NoInvalidAfterSave ==
  saved => \A i \in 1..Len(DataRows(store)) :
             to_datetime(DataRows(store)[i].Data) # NaT

\* a save completed after a load that dropped rows
C10_Witness ==
  \E s \in Sessions :
    /\ saved /\ pc[s] = "saved"
    /\ loaded[s].dropped > 0

====
